---- MODULE Spec2Model ----
(***************************************************************************)
(* MiniSciATH: the YAML-subset parser of src/minisciath.py                 *)
(* (_parse_line, _parse_error, _parse_yaml_subset_from_file).              *)
(*                                                                         *)
(* A string is a sequence of characters.  The characters the parser looks  *)
(* at (space, tab, newline, '#', '-', ':') are modelled one by one; a run  *)
(* of other characters (a word such as name or t1) is one element.         *)
(* Python lists and dicts are objects on a heap, so that a stack frame and *)
(* the parent slot it is linked into refer to the same container.          *)
(***************************************************************************)
EXTENDS Integers, Sequences, FiniteSets, TLC

\* ---------------------------------------------------------------- bounds
MaxLines == 4
MaxIndent == 2

\* ------------------------------------------------------- string helpers
IsWhitespace(c) == c \in {" ", "\t", "\n", "\r"}

RECURSIVE lstrip(_)
lstrip(s) ==
    IF s = <<>> THEN <<>>
    ELSE IF IsWhitespace(Head(s)) THEN lstrip(Tail(s)) ELSE s

RECURSIVE rstrip(_)
rstrip(s) ==
    IF s = <<>> THEN <<>>
    ELSE IF IsWhitespace(s[Len(s)]) THEN rstrip(SubSeq(s, 1, Len(s) - 1)) ELSE s

RECURSIVE rstrip_newline(_)
rstrip_newline(s) ==
    IF s = <<>> THEN <<>>
    ELSE IF s[Len(s)] = "\n" THEN rstrip_newline(SubSeq(s, 1, Len(s) - 1)) ELSE s

strip(s) == lstrip(rstrip(s))

\* str.split(sep): the pieces between the occurrences of sep, all of them
RECURSIVE split(_, _)
split(s, sep) ==
    IF \A i \in 1..Len(s) : s[i] # sep THEN <<s>>
    ELSE LET i == CHOOSE j \in 1..Len(s) :
                      s[j] = sep /\ \A k \in 1..(j - 1) : s[k] # sep
         IN  <<SubSeq(s, 1, i - 1)>> \o split(SubSeq(s, i + 1, Len(s)), sep)

Spaces(n) == [i \in 1..n |-> " "]

\* ------------------------------------------------------------ _parse_line
\* the check of line 215 left out
parse_line_AnyIndent(ln) ==
    LET line_without_newline == rstrip_newline(ln)
        content == lstrip(line_without_newline)
        indent == Len(line_without_newline) - Len(content)
    IN  [indent  |-> indent,
         spaces  |-> TRUE,
         content |-> rstrip(split(content, "#")[1])]

\* the comment of line 219 left in
parse_line_CommentKept(ln) ==
    LET line_without_newline == rstrip_newline(ln)
        content == lstrip(line_without_newline)
        indent == Len(line_without_newline) - Len(content)
    IN  [indent  |-> indent,
         spaces  |-> SubSeq(line_without_newline, 1, indent) = Spaces(indent),
         content |-> rstrip(content)]

\* indent, content and whether the "Indent with spaces only" check passes
parse_line(ln) ==
    LET line_without_newline == rstrip_newline(ln)
        content == lstrip(line_without_newline)
        indent == Len(line_without_newline) - Len(content)
    IN  [indent  |-> indent,
         spaces  |-> SubSeq(line_without_newline, 1, indent) = Spaces(indent),
         content |-> rstrip(split(content, "#")[1])]

\* ------------------------------------------------------ entry classifier
None == <<"None">>

\* the slice content[1:] taken as content[0:]
ParseContent_DashKept(content) ==
    IF Head(content) = "-"
    THEN [entry_type |-> "s", key |-> None,
          value |-> strip(content), unpack |-> TRUE]
    ELSE LET parts == split(content, ":")
         IN  IF Len(parts) = 2
             THEN [entry_type |-> "m", key |-> strip(parts[1]),
                   value |-> strip(parts[2]), unpack |-> TRUE]
             ELSE [entry_type |-> "m", key |-> None,
                   value |-> <<>>, unpack |-> FALSE]

\* lines 259-266: unpack is FALSE when "key, value = content.split(':')"
\* raises ValueError (the split does not give exactly two pieces)
ParseContent(content) ==
    IF Head(content) = "-"
    THEN [entry_type |-> "s", key |-> None,
          value |-> strip(Tail(content)), unpack |-> TRUE]
    ELSE LET parts == split(content, ":")
         IN  IF Len(parts) = 2
             THEN [entry_type |-> "m", key |-> strip(parts[1]),
                   value |-> strip(parts[2]), unpack |-> TRUE]
             ELSE [entry_type |-> "m", key |-> None,
                   value |-> <<>>, unpack |-> FALSE]

\* ------------------------------------------------------------------ heap
\* A value is a str or a reference to a list/dict object on the heap.
Str(t) == [kind |-> "str", text |-> t, id |-> 0]
Obj(i) == [kind |-> "obj", text |-> <<>>, id |-> i]

\* A list is a sequence of items with key None; a dict is a sequence of
\* (key, val) items in insertion order.
Item(k, v) == [key |-> k, val |-> v]
NewData(entry_type) ==
    [kind |-> IF entry_type = "m" THEN "dict" ELSE "list", items |-> <<>>]

\* the test of line 322 left out
KeyIn_Never(key, data) == FALSE

\* "key in curr.data"
KeyIn(key, data) == \E i \in 1..Len(data.items) : data.items[i].key = key

\* prev.data[0] taken for prev.data[-1]
SlotOf_First(data, pk) ==
    IF data.kind = "list" THEN 1
    ELSE CHOOSE i \in 1..Len(data.items) : data.items[i].key = pk

\* position of prev.data[-1] (list) or prev.data[prev_key] (dict)
SlotOf(data, pk) ==
    IF data.kind = "list" THEN Len(data.items)
    ELSE CHOOSE i \in 1..Len(data.items) : data.items[i].key = pk

\* the tests of lines 291 and 298 left out
Truthy_Never(hp, v) == FALSE

\* Python truth value of "if prev.data[-1]:" / "if prev.data[prev_key]:"
Truthy(hp, v) ==
    IF v.kind = "str" THEN v.text # <<>> ELSE hp[v.id].items # <<>>

\* the new entry put in front of the others
Store_Prepend(data, key, v) ==
    [data EXCEPT !.items = <<Item(key, v)>> \o data.items]

\* an item equal to one already held is not added again
Store_Unique(data, key, v) ==
    IF \E i \in 1..Len(data.items) : data.items[i] = Item(key, v)
    THEN data
    ELSE [data EXCEPT !.items = Append(data.items, Item(key, v))]

\* curr.data.append(value) / curr.data[key] = value
Store(data, key, v) ==
    IF KeyIn(key, data) /\ data.kind = "dict"
    THEN [data EXCEPT !.items =
             [i \in 1..Len(data.items) |->
                 IF data.items[i].key = key THEN Item(key, v) ELSE data.items[i]]]
    ELSE [data EXCEPT !.items = Append(data.items, Item(key, v))]

\* ----------------------------------------------------------------- errors
NoException == [type |-> "none", message |-> "", filename |-> FALSE, line |-> 0]

\* _parse_error: an Exception whose text holds filename:line_number
parse_error(line_number, message) ==
    [type |-> "Exception", message |-> message, filename |-> TRUE,
     line |-> line_number]

\* an exception raised by the interpreter itself: no file name, no line
Builtin(type) == [type |-> type, message |-> "", filename |-> FALSE, line |-> 0]

\* the frame made without the line's indent
_StackFrame_NoIndent(entry_type, indent, data) ==
    [entry_type |-> entry_type, indent |-> 0, data |-> data]

_StackFrame(entry_type, indent, data) ==
    [entry_type |-> entry_type, indent |-> indent, data |-> data]

\* ------------------------------------------------- reading a line of text
\* What a line of the file says, stated on the text itself.
Unterminated(ln) == SelectSeq(ln, LAMBDA c : c # "\n")

LeadingWhitespace(ln) ==
    LET u == Unterminated(ln)
    IN  CHOOSE k \in 0..Len(u) :
            /\ \A i \in 1..k : IsWhitespace(u[i])
            /\ k = Len(u) \/ ~IsWhitespace(u[k + 1])

SpaceIndented(ln) ==
    \A i \in 1..LeadingWhitespace(ln) : Unterminated(ln)[i] = " "

Uncommented(ln) ==
    LET u == Unterminated(ln)
        k == CHOOSE j \in 0..Len(u) :
                 /\ \A i \in 1..j : u[i] # "#"
                 /\ j = Len(u) \/ u[j + 1] = "#"
    IN  SubSeq(u, 1, k)

IsBlankLine(ln) ==
    \A i \in 1..Len(Uncommented(ln)) : IsWhitespace(Uncommented(ln)[i])

\* the text of the line between its indentation and its comment
Payload(ln) ==
    LET u == Uncommented(ln)
        last == CHOOSE k \in 0..Len(u) :
                    /\ k = 0 \/ ~IsWhitespace(u[k])
                    /\ \A i \in (k + 1)..Len(u) : IsWhitespace(u[i])
    IN  SubSeq(u, LeadingWhitespace(ln) + 1, last)

Colons(ln) == { i \in 1..Len(Payload(ln)) : Payload(ln)[i] = ":" }

IsSequenceLine(ln) == ~IsBlankLine(ln) /\ Payload(ln)[1] = "-"
IsMappingLine(ln) ==
    ~IsBlankLine(ln) /\ Payload(ln)[1] # "-" /\ Cardinality(Colons(ln)) = 1
IsEntryLine(ln) == SpaceIndented(ln) /\ (IsSequenceLine(ln) \/ IsMappingLine(ln))
KindOf(ln) == IF IsSequenceLine(ln) THEN "s" ELSE "m"

Trimmed(s) ==
    LET first == CHOOSE k \in 1..(Len(s) + 1) :
                     /\ k = Len(s) + 1 \/ ~IsWhitespace(s[k])
                     /\ \A i \in 1..(k - 1) : IsWhitespace(s[i])
        last == CHOOSE k \in 0..Len(s) :
                    /\ k = 0 \/ ~IsWhitespace(s[k])
                    /\ \A i \in (k + 1)..Len(s) : IsWhitespace(s[i])
    IN  SubSeq(s, first, last)

FirstColon(ln) == CHOOSE i \in Colons(ln) : \A j \in Colons(ln) : i <= j
KeyBeforeFirstColon(ln) == Trimmed(SubSeq(Payload(ln), 1, FirstColon(ln) - 1))
ValueAfterFirstColon(ln) ==
    Trimmed(SubSeq(Payload(ln), FirstColon(ln) + 1, Len(Payload(ln))))

\* ------------------------------------------------------------ the input
Bodies ==
    { <<>>,
      <<"#", " ", "note">>,
      <<"-">>,
      <<"-", " ", "alpha">>,
      <<"-", " ", "name", ":", " ", "t1">>,
      <<"name", ":">>,
      <<"name", ":", " ", "t1">>,
      <<"command", ":", " ", "run1">>,
      <<"command", ":", " ", "echo", " ", "a", ":", "b">>,
      <<"alpha">> }

Prefixes == { Spaces(n) : n \in 0..MaxIndent } \cup { <<"\t">>, <<" ", "\t">> }

Lines == { p \o b \o <<"\n">> : p \in Prefixes, b \in Bodies }

\* ----------------------------------------------------------------- state
VARIABLES
    line,          \* the line of the file the loop is at
    line_number,   \* its 1-based number (0 before the first)
    stack,         \* list of _StackFrame, bottom first
    heap,          \* the list and dict objects created so far
    prev_key,      \* key of the last mapping entry, or None
    pc,            \* "loop", "returned" or "raised"
    exception,     \* the exception raised, if any
    result,        \* heap id of the returned object, 0 if none
    entry_indent,  \* history: indentation of the last non-blank line, -1 if none
    increases,     \* history: non-blank lines deeper than the non-blank line before
    decreased,     \* history: some non-blank line was shallower than the one before
    lpc,           \* _get_tests_from_file: "idle", "start", "entries",
                   \* "subset", "filter", "done" or "raised"
    args,          \* test_subset, exclude_group, only_group
    tests,         \* list of Test
    test,          \* the variable of lines 123 and 139, which line 144 reads
    name_to_test,  \* dict of line 138
    active_test_names,   \* the names of line 141 not yet looked at
    active_tests

vars == <<line, line_number, stack, heap, prev_key, pc, exception, result,
          entry_indent, increases, decreased,
          lpc, args, tests, test, name_to_test, active_test_names, active_tests>>

parser_vars == <<line, line_number, stack, heap, prev_key, pc, result,
                 entry_indent, increases, decreased>>
loader_vars == <<lpc, args, tests, test, name_to_test, active_test_names,
                 active_tests>>

Init ==
    /\ line = <<>>
    /\ line_number = 0
    /\ stack = <<>>
    /\ heap = <<>>
    /\ prev_key = None
    /\ pc = "loop"
    /\ exception = NoException
    /\ result = 0
    /\ entry_indent = -1
    /\ increases = 0
    /\ decreased = FALSE
    /\ lpc = "idle"
    /\ args = [test_subset |-> None, exclude_group |-> None, only_group |-> None]
    /\ tests = <<>>
    /\ test = None
    /\ name_to_test = <<>>
    /\ active_test_names = <<>>
    /\ active_tests = <<>>

Outcome(stk, hp, pk, exc) ==
    [stack |-> stk, heap |-> hp, prev_key |-> pk, exception |-> exc]

\* the test of line 316 left out
TypeMismatch_Never(entry_type, curr) == FALSE

\* line 316: the entry's kind against the frame's kind
TypeMismatch(entry_type, curr) == entry_type # curr.entry_type

\* lines 315-326: add the entry to the container of the top frame
AddEntry(stk, hp, pk, e, n) ==
    LET curr == stk[Len(stk)]
        data == hp[curr.data]
    IN  IF TypeMismatch(e.entry_type, curr)
        THEN Outcome(stk, hp, pk, parse_error(n, "Invalid entry type"))
        ELSE IF e.entry_type = "s"
        THEN Outcome(stk,
                     [hp EXCEPT ![curr.data] = Store(data, None, Str(e.value))],
                     None, NoException)
        ELSE IF KeyIn(e.key, data)
        THEN Outcome(stk, hp, pk, parse_error(n, "Duplicate key"))
        ELSE Outcome(stk,
                     [hp EXCEPT ![curr.data] = Store(data, e.key, Str(e.value))],
                     e.key, NoException)

\* lines 269-277: the first entry
First(e, indent) ==
    LET data == Store(NewData(e.entry_type), e.key, Str(e.value))
    IN  Outcome(<<_StackFrame(e.entry_type, indent, 1)>>, <<data>>,
                e.key, NoException)

\* the assignment of lines 296 and 303 left out
Nest_Unlinked(stk, hp, pk, e, indent, n) ==
    LET prev == stk[Len(stk)]
        new_data == Len(hp) + 1
        hp1 == Append(hp, NewData(e.entry_type))
        stk1 == Append(stk, _StackFrame(e.entry_type, indent, new_data))
        slot == SlotOf(hp[prev.data], pk)
    IN  IF Truthy(hp, hp[prev.data].items[slot].val)
        THEN Outcome(stk1, hp1, pk,
                 parse_error(n,
                     IF prev.entry_type = "s"
                     THEN "Data not allowed on previous sequence line, when nesting"
                     ELSE "Data not allowed on previous mapping line, when nesting"))
        ELSE AddEntry(stk1, hp1, pk, e, n)

\* the line that opens a container is not put into it
Nest_NoEntry(stk, hp, pk, e, indent, n) ==
    LET prev == stk[Len(stk)]
        new_data == Len(hp) + 1
        hp1 == Append(hp, NewData(e.entry_type))
        stk1 == Append(stk, _StackFrame(e.entry_type, indent, new_data))
        slot == SlotOf(hp[prev.data], pk)
    IN  IF Truthy(hp, hp[prev.data].items[slot].val)
        THEN Outcome(stk1, hp1, pk,
                 parse_error(n,
                     IF prev.entry_type = "s"
                     THEN "Data not allowed on previous sequence line, when nesting"
                     ELSE "Data not allowed on previous mapping line, when nesting"))
        ELSE Outcome(stk1,
                     [hp1 EXCEPT ![prev.data].items[slot].val = Obj(new_data)],
                     pk, NoException)

\* lines 281-303, then 315-326: a line deeper than the top frame
Nest(stk, hp, pk, e, indent, n) ==
    LET prev == stk[Len(stk)]
        new_data == Len(hp) + 1
        hp1 == Append(hp, NewData(e.entry_type))
        stk1 == Append(stk, _StackFrame(e.entry_type, indent, new_data))
        slot == SlotOf(hp[prev.data], pk)
    IN  IF Truthy(hp, hp[prev.data].items[slot].val)
        THEN Outcome(stk1, hp1, pk,
                 parse_error(n,
                     IF prev.entry_type = "s"
                     THEN "Data not allowed on previous sequence line, when nesting"
                     ELSE "Data not allowed on previous mapping line, when nesting"))
        ELSE AddEntry(stk1,
                      [hp1 EXCEPT ![prev.data].items[slot].val = Obj(new_data)],
                      pk, e, n)

\* the test of line 312 taken as "indent >= curr.indent"
RECURSIVE Unwound_AtMost(_, _)
Unwound_AtMost(stk, indent) ==
    LET popped == SubSeq(stk, 1, Len(stk) - 1)
    IN  IF popped = <<>> THEN <<>>
        ELSE IF indent >= popped[Len(popped)].indent THEN popped
        ELSE Unwound_AtMost(popped, indent)

\* lines 306-313: pop until the top frame has this indent, or none is left
RECURSIVE Unwound(_, _)
Unwound(stk, indent) ==
    LET popped == SubSeq(stk, 1, Len(stk) - 1)
    IN  IF popped = <<>> THEN <<>>
        ELSE IF indent = popped[Len(popped)].indent THEN popped
        ELSE Unwound(popped, indent)

\* lines 304-313, then 315-326: a line shallower than the top frame
Unwind(stk, hp, pk, e, indent, n) ==
    LET stk1 == Unwound(stk, indent)
    IN  IF stk1 = <<>>
        THEN Outcome(stk1, hp, pk, parse_error(n, "Invalid indentation"))
        ELSE AddEntry(stk1, hp, pk, e, n)

\* --------------------------------------------------------------- actions
\* what the input has shown so far, kept for the statements about whole inputs
History(ln) ==
    IF IsBlankLine(ln)
    THEN UNCHANGED <<entry_indent, increases, decreased>>
    ELSE /\ entry_indent' = LeadingWhitespace(ln)
         /\ increases' = IF entry_indent >= 0 /\ LeadingWhitespace(ln) > entry_indent
                         THEN increases + 1 ELSE increases
         /\ decreased' = (decreased \/ LeadingWhitespace(ln) < entry_indent)

\* "for line_number, line in enumerate(lines, start=1)"
NextLine(ln) ==
    /\ pc = "loop"
    /\ line_number < MaxLines
    /\ line' = ln
    /\ line_number' = line_number + 1
    /\ History(ln)
    /\ UNCHANGED loader_vars

Becomes(r) ==
    /\ stack' = r.stack
    /\ heap' = r.heap
    /\ prev_key' = r.prev_key
    /\ exception' = r.exception
    /\ pc' = IF r.exception = NoException THEN "loop" ELSE "raised"
    /\ UNCHANGED result

Entry(ln) == ParseContent(parse_line(ln).content)

IsEntry(ln) ==
    /\ parse_line(ln).spaces
    /\ parse_line(ln).content # <<>>
    /\ Entry(ln).unpack

\* lines 215-216
IndentWithSpacesOnly(ln) ==
    /\ NextLine(ln)
    /\ ~parse_line(ln).spaces
    /\ Becomes(Outcome(stack, heap, prev_key,
                       parse_error(line_number', "Indent with spaces only")))

\* lines 255-256
SkipLine(ln) ==
    /\ NextLine(ln)
    /\ parse_line(ln).spaces
    /\ parse_line(ln).content = <<>>
    /\ UNCHANGED <<stack, heap, prev_key, pc, exception, result>>

\* line 264: the tuple assignment raises ValueError
UnpackError(ln) ==
    /\ NextLine(ln)
    /\ parse_line(ln).spaces
    /\ parse_line(ln).content # <<>>
    /\ ~Entry(ln).unpack
    /\ Becomes(Outcome(stack, heap, prev_key, Builtin("ValueError")))

FirstEntry(ln) ==
    /\ NextLine(ln)
    /\ IsEntry(ln)
    /\ stack = <<>>
    /\ Becomes(First(Entry(ln), parse_line(ln).indent))

NestEntry(ln) ==
    /\ NextLine(ln)
    /\ IsEntry(ln)
    /\ stack # <<>>
    /\ parse_line(ln).indent > stack[Len(stack)].indent
    /\ Becomes(Nest(stack, heap, prev_key, Entry(ln),
                    parse_line(ln).indent, line_number'))

SameLevelEntry(ln) ==
    /\ NextLine(ln)
    /\ IsEntry(ln)
    /\ stack # <<>>
    /\ parse_line(ln).indent = stack[Len(stack)].indent
    /\ Becomes(AddEntry(stack, heap, prev_key, Entry(ln), line_number'))

UnwindEntry(ln) ==
    /\ NextLine(ln)
    /\ IsEntry(ln)
    /\ stack # <<>>
    /\ parse_line(ln).indent < stack[Len(stack)].indent
    /\ Becomes(Unwind(stack, heap, prev_key, Entry(ln),
                      parse_line(ln).indent, line_number'))

\* stack[-1] returned for stack[0]
Return_Top ==
    /\ pc = "loop"
    /\ IF stack = <<>>
       THEN /\ pc' = "raised"
            /\ exception' = Builtin("IndexError")
            /\ UNCHANGED result
       ELSE /\ pc' = "returned"
            /\ result' = stack[Len(stack)].data
            /\ UNCHANGED exception
    /\ UNCHANGED <<line, line_number, stack, heap, prev_key>>
    /\ UNCHANGED <<entry_indent, increases, decreased>>
    /\ UNCHANGED loader_vars

\* line 328, after the last line: "return stack[0].data"
Return ==
    /\ pc = "loop"
    /\ IF stack = <<>>
       THEN /\ pc' = "raised"
            /\ exception' = Builtin("IndexError")
            /\ UNCHANGED result
       ELSE /\ pc' = "returned"
            /\ result' = stack[1].data
            /\ UNCHANGED exception
    /\ UNCHANGED <<line, line_number, stack, heap, prev_key>>
    /\ UNCHANGED <<entry_indent, increases, decreased>>
    /\ UNCHANGED loader_vars

Next ==
    \/ \E ln \in Lines : IndentWithSpacesOnly(ln)
    \/ \E ln \in Lines : SkipLine(ln)
    \/ \E ln \in Lines : UnpackError(ln)
    \/ \E ln \in Lines : FirstEntry(ln)
    \/ \E ln \in Lines : NestEntry(ln)
    \/ \E ln \in Lines : SameLevelEntry(ln)
    \/ \E ln \in Lines : UnwindEntry(ln)
    \/ Return

Spec == Init /\ [][Next]_vars

TypeOK ==
    /\ line_number \in 0..MaxLines
    /\ pc \in {"loop", "returned", "raised"}
    /\ Len(stack) <= MaxLines

\* ------------------------------------------------- _get_tests_from_file
\* The loader is modelled on its own: the entries of the document the
\* parser returned are drawn one by one, and the arguments at the start.
MaxTests == 2

Absent == <<"Absent">>

\* the dict of a test entry, from the values of its keys (Absent: no key)
RECURSIVE Fields(_)
Fields(pairs) ==
    IF pairs = <<>> THEN <<>>
    ELSE IF Head(pairs)[2] = Absent THEN Fields(Tail(pairs))
    ELSE <<Item(Head(pairs)[1], Str(Head(pairs)[2]))>> \o Fields(Tail(pairs))

EntryDict(name, command, expected, group) ==
    [kind |-> "dict",
     items |-> Fields(<< <<(<<"name">>), name>>,
                         <<(<<"command">>), command>>,
                         <<(<<"expected">>), expected>>,
                         <<(<<"group">>), group>> >>)]

Entries ==
    { EntryDict(n, c, e, g) :
          n \in {Absent, <<>>, <<"t1">>, <<"t2">>, <<"bad", " ", "name">>},
          c \in {Absent, <<"run1">>},
          e \in {Absent, <<>>, <<"e1">>},
          g \in {Absent, <<>>, <<"g">>} }
    \cup { Str(<<"alpha">>) }

\* args.test_subset as typed, args.exclude_group, args.only_group
Arguments ==
    [test_subset : {None, <<"t1">>, <<"t2", ",", "t1">>, <<"t3">>,
                    <<"t1", ",", "t3">>, <<"t2", ",", "t2">>},
     exclude_group : {None, <<"g">>},
     only_group : {None, <<"g">>}]

\* entry[key]
Get(entry, key) ==
    entry.items[CHOOSE i \in 1..Len(entry.items) : entry.items[i].key = key].val

\* re.match(r'^\w+$', name): one or more word characters and nothing else
NotWord == {" ", "\t", "\n", "\r", "#", "-", ":", ","}
MatchesWord(text) ==
    text # <<>> /\ \A i \in 1..Len(text) : text[i] \notin NotWord

\* class Test
Test(name, command, expected, group) ==
    [name |-> name, command |-> command, expected |-> expected, group |-> group]

\* "x in tests": list membership compares with ==, which is False between
\* a str and a Test and identity between two Test objects
IsTest(x) == "command" \in DOMAIN x
InList(x, list) ==
    \E i \in 1..Len(list) : IsTest(x) = IsTest(list[i]) /\ x = list[i]

\* an Exception raised by the loader: a message, no file name, no line
Failure(message) ==
    [type |-> "Exception", message |-> message, filename |-> FALSE, line |-> 0]

\* lines 106-135: the exception an entry raises, or the Test it makes
LoadedEntry(entry, loaded) ==
    IF entry.kind # "dict"
    THEN [exception |-> Failure("Incorrectly formatted test entry (must be a mapping)")]
    ELSE IF ~KeyIn(<<"expected">>, entry) \/ Get(entry, <<"expected">>).text = <<>>
    THEN [exception |-> Failure("Each test entry must defined an expected file")]
    ELSE IF ~KeyIn(<<"command">>, entry)
    THEN [exception |-> Failure("Each test entry must specify a command")]
    ELSE IF ~KeyIn(<<"name">>, entry)
    THEN [exception |-> Failure("Each test entry must specify a name")]
    ELSE IF ~MatchesWord(Get(entry, <<"name">>).text)
    THEN [exception |-> Failure("Illegal test name")]
    ELSE IF InList(Get(entry, <<"name">>), loaded)
    THEN [exception |-> Failure("Duplicate test name")]
    ELSE IF KeyIn(<<"group">>, entry) /\ Get(entry, <<"group">>).text = <<>>
    THEN [exception |-> Failure("Empty group name")]
    ELSE [exception |-> NoException,
          test |-> Test(Get(entry, <<"name">>).text,
                        Get(entry, <<"command">>).text,
                        Get(entry, <<"expected">>).text,
                        IF KeyIn(<<"group">>, entry)
                        THEN Get(entry, <<"group">>).text ELSE None)]

\* lines 138-140: the last test of each name
NameToTest(loaded) ==
    [n \in { loaded[i].name : i \in 1..Len(loaded) } |->
        loaded[CHOOSE i \in 1..Len(loaded) :
                   /\ loaded[i].name = n
                   /\ \A j \in (i + 1)..Len(loaded) : loaded[j].name # n]]

\* lines 150-155
Filtered(active, a) ==
    LET kept == IF a.exclude_group # None
                THEN SelectSeq(active, LAMBDA t : t.group # a.exclude_group)
                ELSE active
    IN  IF a.only_group # None
        THEN SelectSeq(kept, LAMBDA t : t.group = a.only_group)
        ELSE kept

LoaderInit ==
    /\ line = <<>>
    /\ line_number = 0
    /\ stack = <<>>
    /\ heap = <<>>
    /\ prev_key = None
    /\ pc = "returned"
    /\ exception = NoException
    /\ result = 0
    /\ entry_indent = -1
    /\ increases = 0
    /\ decreased = FALSE
    /\ lpc = "start"
    /\ args \in Arguments
    /\ tests = <<>>
    /\ test = None
    /\ name_to_test = <<>>
    /\ active_test_names = <<>>
    /\ active_tests = <<>>

LoaderRaise(exc) ==
    /\ lpc' = "raised"
    /\ exception' = exc

\* lines 101-104
CheckTopLevel(kind) ==
    /\ lpc = "start"
    /\ IF kind # "list"
       THEN LoaderRaise(Failure("Incorrectly formatted input file (must have a top level sequence)"))
       ELSE lpc' = "entries" /\ UNCHANGED exception
    /\ UNCHANGED <<args, tests, test, name_to_test, active_test_names, active_tests>>
    /\ UNCHANGED parser_vars

\* lines 105-135: one entry of test_data
LoadEntry(entry) ==
    /\ lpc = "entries"
    /\ Len(tests) < MaxTests
    /\ LET r == LoadedEntry(entry, tests)
       IN  IF r.exception # NoException
           THEN LoaderRaise(r.exception) /\ UNCHANGED <<tests, test>>
           ELSE /\ tests' = Append(tests, r.test)
                /\ test' = r.test
                /\ UNCHANGED <<lpc, exception>>
    /\ UNCHANGED <<args, name_to_test, active_test_names, active_tests>>
    /\ UNCHANGED parser_vars

\* lines 137-141 and 147-148, after the last entry (a list the parser
\* returns has an entry)
EndOfEntries ==
    /\ lpc = "entries"
    /\ tests # <<>>
    /\ IF args.test_subset # None /\ args.test_subset # <<>>
       THEN /\ name_to_test' = NameToTest(tests)
            /\ test' = tests[Len(tests)]
            /\ active_test_names' = split(args.test_subset, ",")
            /\ active_tests' = <<>>
            /\ lpc' = "subset"
       ELSE /\ active_tests' = tests
            /\ lpc' = "filter"
            /\ UNCHANGED <<name_to_test, test, active_test_names>>
    /\ UNCHANGED <<args, tests, exception>>
    /\ UNCHANGED parser_vars

\* lines 143-146: one name of the subset
SelectTest ==
    /\ lpc = "subset"
    /\ active_test_names # <<>>
    /\ LET test_name == Head(active_test_names)
       IN  IF ~InList(name_to_test[test.name], tests)
           THEN /\ LoaderRaise(Failure("Unrecognized test"))
                /\ UNCHANGED <<active_tests, active_test_names>>
           ELSE IF test_name \notin DOMAIN name_to_test
           THEN /\ LoaderRaise(Builtin("KeyError"))
                /\ UNCHANGED <<active_tests, active_test_names>>
           ELSE /\ active_tests' = Append(active_tests, name_to_test[test_name])
                /\ active_test_names' = Tail(active_test_names)
                /\ UNCHANGED <<lpc, exception>>
    /\ UNCHANGED <<args, tests, test, name_to_test>>
    /\ UNCHANGED parser_vars

\* the end of the loop of line 143
EndOfSubset ==
    /\ lpc = "subset"
    /\ active_test_names = <<>>
    /\ lpc' = "filter"
    /\ UNCHANGED <<args, tests, test, name_to_test, active_test_names,
                   active_tests, exception>>
    /\ UNCHANGED parser_vars

\* lines 150-157
FilterAndReturn ==
    /\ lpc = "filter"
    /\ active_tests' = Filtered(active_tests, args)
    /\ lpc' = "done"
    /\ UNCHANGED <<args, tests, test, name_to_test, active_test_names, exception>>
    /\ UNCHANGED parser_vars

LoaderNext ==
    \/ \E kind \in {"list", "dict"} : CheckTopLevel(kind)
    \/ \E entry \in Entries : LoadEntry(entry)
    \/ EndOfEntries
    \/ SelectTest
    \/ EndOfSubset
    \/ FilterAndReturn

LoaderSpec == LoaderInit /\ [][LoaderNext]_vars

\* a step of the loop that reads the next line
ReadsLine == line_number' = line_number + 1

Top == stack[Len(stack)]
LastItem(data) == data.items[Len(data.items)]
HoldsKey(data, k) == \E i \in 1..Len(data.items) : data.items[i].key = k
NonEmptyStr(v) == v.kind = "str" /\ v.text # <<>>

\* the open frame an entry at this indent is inserted into, if there is one
HasFrameAt(indent) ==
    /\ stack # <<>>
    /\ indent <= Top.indent
    /\ \E i \in 1..Len(stack) : stack[i].indent = indent
FrameAt(indent) ==
    stack[CHOOSE i \in 1..Len(stack) : stack[i].indent = indent]

Nesting(kind) ==
    IF kind = "s"
    THEN "Data not allowed on previous sequence line, when nesting"
    ELSE "Data not allowed on previous mapping line, when nesting"

\* ---------------------------------------------------------------- claims
InlineLine == <<"-", " ", "name", ":", " ", "t1", "\n">>
DeeperLine == <<" ", " ", "command", ":", " ", "run1", "\n">>
InlineText == <<"name", ":", " ", "t1">>

\* C1 as stated: after '- name: t1' at indent 0, the line '  command: run1'
\* is accepted and the first item of the sequence is then a Mapping with
\* the keys name and command in that order.
C1_InlineMappingAccepted ==
    [][(/\ pc = "loop" /\ line_number = 1 /\ line = InlineLine
        /\ ReadsLine /\ line' = DeeperLine)
       => /\ pc' = "loop"
          /\ heap'[1].kind = "list"
          /\ heap'[1].items[1].val.kind = "obj"
          /\ LET m == heap'[heap'[1].items[1].val.id]
             IN  /\ m.kind = "dict"
                 /\ [i \in 1..Len(m.items) |-> m.items[i].key]
                        = <<(<<"name">>), (<<"command">>)>>]_vars

\* C1 amended: a '- key: value' line is a sequence entry whose item is the
\* scalar text 'key: value'; a deeper entry line right after it fails with
\* the nesting error at the deeper line and leaves that item as it is.  For
\* the example the failure is at line 2.
C1_InlineEntryIsScalar ==
    [][(/\ pc = "loop" /\ line_number >= 1
        /\ IsEntryLine(line) /\ IsSequenceLine(line)
        /\ Colons(line) # {}
        /\ ReadsLine /\ IsEntryLine(line')
        /\ LeadingWhitespace(line') > LeadingWhitespace(line))
       => /\ LastItem(heap[Top.data]).val
                = Str(Trimmed(Tail(Payload(line))))
          /\ HoldsKey(heap[Top.data], None)
          /\ pc' = "raised"
          /\ exception' = parse_error(line_number', Nesting("s"))
          /\ heap'[Top.data] = heap[Top.data]]_vars

C1_Witness ==
    /\ line_number = 2
    /\ line = DeeperLine
    /\ stack[1] = _StackFrame("s", 0, 1)
    /\ pc = "raised"
    /\ exception = parse_error(2, Nesting("s"))
    /\ heap[1].items[1].val = Str(InlineText)

\* C2 as stated: a space-indented line that does not start with '-' and has
\* one or more ':' is a mapping entry split at its first colon; the colons
\* after the first are part of the value and do not make the parse fail.
C2_SplitAtFirstColon ==
    (/\ line_number >= 1 /\ pc # "returned"
     /\ SpaceIndented(line) /\ ~IsBlankLine(line)
     /\ Payload(line)[1] # "-" /\ Colons(line) # {})
    => /\ exception.type # "ValueError"
       /\ pc = "loop" =>
              /\ LastItem(heap[Top.data]).key = KeyBeforeFirstColon(line)
              /\ LastItem(heap[Top.data]).val = Str(ValueAfterFirstColon(line))

\* C3: a mapping entry whose key is already in the mapping of the frame it
\* goes into (the top frame at equal indent, or the frame a dedent exposes)
\* fails with the duplicate-key error at that line, at any depth, and the
\* containers are left as they were.
C3_DuplicateKeyRejected ==
    [][(/\ pc = "loop" /\ ReadsLine
        /\ IsEntryLine(line') /\ IsMappingLine(line')
        /\ HasFrameAt(LeadingWhitespace(line'))
        /\ FrameAt(LeadingWhitespace(line')).entry_type = "m"
        /\ HoldsKey(heap[FrameAt(LeadingWhitespace(line')).data],
                    KeyBeforeFirstColon(line')))
       => /\ pc' = "raised"
          /\ exception' = parse_error(line_number', "Duplicate key")
          /\ heap' = heap]_vars

\* a duplicate key below the top level, reached by a dedent, with a value
\* other than the one already stored
C3_Witness ==
    /\ pc = "raised"
    /\ exception.message = "Duplicate key"
    /\ Len(heap) >= 3
    /\ Len(stack) = 2
    /\ stack[2].entry_type = "m"
    /\ \E i \in 1..Len(heap[stack[2].data].items) :
           /\ heap[stack[2].data].items[i].key = KeyBeforeFirstColon(line)
           /\ heap[stack[2].data].items[i].val # Str(ValueAfterFirstColon(line))

\* C4: a line whose leading whitespace has a character that is not a space
\* fails with the indentation error at that line, whatever the line holds
\* and whatever the stack is; nothing else is looked at.
C4_TabIndentRejected ==
    [][(pc = "loop" /\ ReadsLine /\ ~SpaceIndented(line'))
       => /\ pc' = "raised"
          /\ exception' = parse_error(line_number', "Indent with spaces only")
          /\ heap' = heap /\ stack' = stack]_vars

\* '- alpha' and then a tab-indented 'name: t1': the indentation error at
\* line 2, not the nesting error
C4_Witness ==
    /\ pc = "raised"
    /\ line_number = 2
    /\ line = <<"\t", "name", ":", " ", "t1", "\n">>
    /\ heap = <<[kind |-> "list", items |-> <<Item(None, Str(<<"alpha">>))>>]>>
    /\ exception = parse_error(2, "Indent with spaces only")

ParseStateUnchanged ==
    UNCHANGED <<stack, heap, prev_key, pc, exception, result>>

\* C5 as stated: a blank or comment-only line is skipped whatever its
\* indentation, leaving the stack, the containers and the last key alone.
C5_BlankLineSkipped ==
    [][(pc = "loop" /\ ReadsLine /\ IsBlankLine(line'))
       => ParseStateUnchanged]_vars

\* C5 amended: a blank or comment-only line whose leading whitespace is
\* spaces only is skipped, whatever the number of spaces, leaving the
\* stack, the containers and the last key alone; the lines after it are
\* parsed as if it were not there.
C5_SpaceIndentedBlankLineSkipped ==
    [][(pc = "loop" /\ ReadsLine /\ IsBlankLine(line') /\ SpaceIndented(line'))
       => ParseStateUnchanged]_vars

\* a comment-only line indented deeper than the open mapping whose last
\* value is not empty
C5_Witness ==
    /\ pc = "loop"
    /\ line_number >= 2
    /\ IsBlankLine(line)
    /\ Uncommented(line) # Unterminated(line)
    /\ Len(stack) = 2
    /\ LeadingWhitespace(line) > Top.indent
    /\ NonEmptyStr(LastItem(heap[Top.data]).val)

\* C6 as stated: when the input ends with the stack empty, parsing fails
\* with a parse error that carries the source file name.
C6_EmptyDocumentIsParseError ==
    [][(pc = "loop" /\ stack = <<>> /\ ~ReadsLine /\ pc' # "loop")
       => /\ pc' = "raised"
          /\ exception'.type = "Exception"
          /\ exception'.filename]_vars

\* C7 as stated: a space-indented, non-blank line that does not start with
\* '-' and has no ':' fails with a parse error raised by _parse_error, so
\* with the file name and that line's number.
C7_NoColonIsParseError ==
    [][(/\ pc = "loop" /\ ReadsLine
        /\ SpaceIndented(line') /\ ~IsBlankLine(line')
        /\ Payload(line')[1] # "-" /\ Colons(line') = {})
       => /\ pc' = "raised"
          /\ exception'.type = "Exception"
          /\ exception'.filename
          /\ exception'.line = line_number']_vars

\* C8: an entry that goes into an open frame (the top frame at equal
\* indent, or the frame a dedent exposes) of the other kind fails with the
\* mixed-entry-type error at that line, and no container is modified.
C8_MixedEntryTypeRejected ==
    [][(/\ pc = "loop" /\ ReadsLine /\ IsEntryLine(line')
        /\ HasFrameAt(LeadingWhitespace(line'))
        /\ FrameAt(LeadingWhitespace(line')).entry_type # KindOf(line'))
       => /\ pc' = "raised"
          /\ exception' = parse_error(line_number', "Invalid entry type")
          /\ heap' = heap]_vars

\* a sequence entry at the indent of a mapping frame that a dedent exposes
C8_Witness ==
    /\ pc = "raised"
    /\ exception.message = "Invalid entry type"
    /\ IsSequenceLine(line)
    /\ Len(heap) > Len(stack)
    /\ Top.entry_type = "m"
    /\ Top.indent = LeadingWhitespace(line)

\* C9: an entry line deeper than the top frame, when the slot added last to
\* the top frame (the last item of a sequence, the value of the key a
\* mapping got last) holds a non-empty scalar, fails with the nesting error
\* at the deeper line; and no step replaces a non-empty scalar held in a
\* container.
C9_NoNestingUnderScalar ==
    [][/\ (/\ pc = "loop" /\ ReadsLine /\ IsEntryLine(line')
           /\ stack # <<>>
           /\ LeadingWhitespace(line') > Top.indent
           /\ NonEmptyStr(LastItem(heap[Top.data]).val))
          => /\ pc' = "raised"
             /\ exception' = parse_error(line_number', Nesting(Top.entry_type))
       /\ \A id \in 1..Len(heap) : \A i \in 1..Len(heap[id].items) :
              NonEmptyStr(heap[id].items[i].val)
              => /\ id <= Len(heap')
                 /\ i <= Len(heap'[id].items)
                 /\ heap'[id].items[i] = heap[id].items[i]]_vars

\* a deeper line under a mapping whose last value was written inline, two
\* lines after the first
C9_Witness ==
    /\ pc = "raised"
    /\ exception = parse_error(line_number, Nesting("m"))
    /\ line_number >= 3
    /\ Len(stack) >= 2
    /\ NonEmptyStr(LastItem(heap[stack[Len(stack) - 1].data]).val)

\* C10 as stated: every failure of the parser is a parse error with the
\* file name and the number of the line at which parsing stopped.
C10_EveryFailureIsParseError ==
    pc = "raised"
    => /\ exception.type = "Exception"
       /\ exception.filename
       /\ exception.line = line_number
       /\ line_number >= 1

\* the entries read so far are all at one level: one frame, one container
Flat(kind) ==
    /\ Len(stack) = 1
    /\ Len(heap) = 1
    /\ Top.entry_type = kind

\* the end of the input, reached with at least one entry read
EndOfInput == pc = "loop" /\ stack # <<>> /\ ~ReadsLine /\ pc' # "loop"

\* C11: while the entries are all mapping entries at one indentation level
\* with distinct keys, each entry is added after the entries before it,
\* with the trimmed text after its colon as value (empty when nothing
\* follows the colon), and the Mapping so built is what is returned.
C11_FlatMappingInFileOrder ==
    [][/\ (/\ pc = "loop" /\ ReadsLine
           /\ IsEntryLine(line') /\ IsMappingLine(line')
           /\ \/ stack = <<>>
              \/ /\ Flat("m")
                 /\ Top.indent = LeadingWhitespace(line')
                 /\ ~HoldsKey(heap[1], KeyBeforeFirstColon(line')))
          => /\ pc' = "loop"
             /\ Len(heap') = 1
             /\ heap'[1].kind = "dict"
             /\ heap'[1].items =
                    (IF stack = <<>> THEN <<>> ELSE heap[1].items)
                    \o <<Item(KeyBeforeFirstColon(line'),
                              Str(ValueAfterFirstColon(line')))>>
       /\ (EndOfInput /\ Flat("m"))
          => /\ pc' = "returned"
             /\ result' = 1
             /\ heap' = heap]_vars

\* 'name:' and then 'command: run1', both indented by two spaces
C11_Witness ==
    /\ pc = "returned"
    /\ result = 1
    /\ stack = <<_StackFrame("m", 2, 1)>>
    /\ heap = <<[kind |-> "dict",
                 items |-> <<Item(<<"name">>, Str(<<>>)),
                             Item(<<"command">>, Str(<<"run1">>))>>]>>

\* C12: while the entries are all sequence entries at one indentation
\* level, each entry is added as the last item, with the trimmed text after
\* its dash as value, an item equal to an earlier one included, and the
\* Sequence so built is what is returned.
C12_FlatSequenceInFileOrder ==
    [][/\ (/\ pc = "loop" /\ ReadsLine
           /\ IsEntryLine(line') /\ IsSequenceLine(line')
           /\ \/ stack = <<>>
              \/ Flat("s") /\ Top.indent = LeadingWhitespace(line'))
          => /\ pc' = "loop"
             /\ Len(heap') = 1
             /\ heap'[1].kind = "list"
             /\ heap'[1].items =
                    (IF stack = <<>> THEN <<>> ELSE heap[1].items)
                    \o <<Item(None, Str(Trimmed(Tail(Payload(line')))))>>
       /\ (EndOfInput /\ Flat("s"))
          => /\ pc' = "returned"
             /\ result' = 1
             /\ heap' = heap]_vars

\* '- alpha', '-', '- alpha': the item alpha twice, in file order
C12_Witness ==
    /\ pc = "returned"
    /\ result = 1
    /\ heap = <<[kind |-> "list",
                 items |-> <<Item(None, Str(<<"alpha">>)),
                             Item(None, Str(<<>>)),
                             Item(None, Str(<<"alpha">>))>>]>>

Max(S) == CHOOSE x \in S : \A y \in S : y <= x

Children(hp, id) ==
    { hp[id].items[i].val.id :
          i \in { j \in 1..Len(hp[id].items) : hp[id].items[j].val.kind = "obj" } }

\* levels of containers below this one: 0 for a container of scalars only
RECURSIVE Depth(_, _)
Depth(hp, id) ==
    IF Children(hp, id) = {} THEN 0
    ELSE 1 + Max({ Depth(hp, k) : k \in Children(hp, id) })

\* C13 as stated: the nesting depth of a returned structure (0 for a flat
\* one) is the number of non-blank lines indented deeper than the non-blank
\* line before them.
C13_DepthIsIncreases ==
    pc = "returned" => Depth(heap, result) = increases

\* C13 amended: the nesting depth of a returned structure is at most the
\* number of strict indentation increases of the input, and equal to it
\* when no non-blank line is indented less than the non-blank line before.
C13_DepthAtMostIncreases ==
    pc = "returned"
    => /\ Depth(heap, result) <= increases
       /\ ~decreased => Depth(heap, result) = increases

\* three lines, each deeper than the one before: depth 2
C13_Witness ==
    /\ pc = "returned"
    /\ ~decreased
    /\ increases = 2
    /\ Depth(heap, result) = 2

\* C14: the first non-blank line creates the bottom frame, at that line's
\* indent, with a Sequence if the line is a '-' entry and a Mapping
\* otherwise; no step of a parse that goes on replaces the bottom frame or
\* its container's kind; and what is returned is the bottom frame's
\* container, an object and not a scalar.
C14_RootIsBottomContainer ==
    [][/\ (pc = "loop" /\ stack = <<>> /\ ReadsLine /\ IsEntryLine(line'))
          => /\ pc' = "loop"
             /\ stack' = <<[entry_type |-> KindOf(line'),
                            indent |-> LeadingWhitespace(line'),
                            data |-> 1]>>
             /\ heap'[1].kind =
                    (IF IsSequenceLine(line') THEN "list" ELSE "dict")
       /\ (stack # <<>> /\ pc' # "raised")
          => /\ stack' # <<>>
             /\ stack'[1] = stack[1]
             /\ heap'[stack[1].data].kind = heap[stack[1].data].kind
       /\ EndOfInput
          => /\ pc' = "returned"
             /\ result' = stack[1].data
             /\ result' \in 1..Len(heap')
             /\ heap'[result'].kind =
                    (IF stack[1].entry_type = "s" THEN "list" ELSE "dict")]_vars

\* a Mapping opened by a first line indented by one space, returned after
\* a deeper block and a dedent back to it
C14_Witness ==
    /\ pc = "returned"
    /\ result = 1
    /\ heap[1].kind = "dict"
    /\ Len(heap) = 2
    /\ stack = <<[entry_type |-> "m", indent |-> 1, data |-> 1]>>

EntryItem(ln) ==
    IF IsSequenceLine(ln)
    THEN Item(None, Str(Trimmed(Tail(Payload(ln)))))
    ELSE Item(KeyBeforeFirstColon(ln), Str(ValueAfterFirstColon(ln)))

\* C15: an entry line indented less than the top frame pops the frames
\* above the open frame that has exactly the line's indent and goes into
\* that frame under the equal-indent rule (mixed-entry-type error,
\* duplicate-key error, or added last); when no open frame has exactly
\* that indent, the line fails with the indentation error.
C15_DedentToExactFrame ==
    [][(/\ pc = "loop" /\ ReadsLine /\ IsEntryLine(line')
        /\ stack # <<>>
        /\ LeadingWhitespace(line') < Top.indent)
       => IF \E i \in 1..Len(stack) : stack[i].indent = LeadingWhitespace(line')
          THEN LET i == CHOOSE j \in 1..Len(stack) :
                            stack[j].indent = LeadingWhitespace(line')
                   id == stack[i].data
               IN  /\ stack' = SubSeq(stack, 1, i)
                   /\ IF stack[i].entry_type # KindOf(line')
                      THEN /\ exception' =
                                  parse_error(line_number', "Invalid entry type")
                           /\ heap' = heap
                      ELSE IF /\ IsMappingLine(line')
                              /\ HoldsKey(heap[id], KeyBeforeFirstColon(line'))
                      THEN /\ exception' =
                                  parse_error(line_number', "Duplicate key")
                           /\ heap' = heap
                      ELSE /\ pc' = "loop"
                           /\ heap' = [heap EXCEPT ![id].items =
                                           Append(@, EntryItem(line'))]
          ELSE /\ pc' = "raised"
               /\ exception' = parse_error(line_number', "Invalid indentation")
               /\ heap' = heap]_vars

\* a fourth line that closes two nested blocks at once and is added to the
\* bottom container
C15_Witness ==
    /\ pc = "loop"
    /\ line_number = 4
    /\ decreased
    /\ Len(heap) = 3
    /\ Len(stack) = 1
    /\ Depth(heap, 1) = 2
    /\ Len(heap[1].items) = 2
    /\ LastItem(heap[1]) = EntryItem(line)

\* C16: in every state of the parse of any input, the indents of the stack
\* frames increase strictly from the bottom frame to the top frame.
C16_StackIndentsIncrease ==
    \A i \in 1..Len(stack) : \A j \in 1..Len(stack) :
        i < j => stack[i].indent < stack[j].indent

\* three open frames, a mapping under a sequence under a mapping
C16_Witness ==
    /\ pc = "loop"
    /\ Len(stack) = 3
    /\ stack[1].entry_type = "m"
    /\ stack[2].entry_type = "s"
    /\ stack[3].entry_type = "m"

\* each frame's container is the slot added last to the frame below it
FramesLinked ==
    \A i \in 1..(Len(stack) - 1) :
        LastItem(heap[stack[i].data]).val = Obj(stack[i + 1].data)

\* C17: after every line processed without error, the container of each
\* frame above the bottom is the slot added last to the container of the
\* frame below (a sequence's last item, the value of the key a mapping got
\* last).  A deeper line puts a new container into that slot of the top
\* frame, which held the empty scalar until then; under a mapping it is
\* the value of the key of the non-blank line just before.  A slot that
\* holds a container keeps it, so a popped container stays in its parent.
C17_FramesLinkedToLastSlot ==
    [][/\ pc' = "loop" => FramesLinked'
       /\ (/\ pc = "loop" /\ ReadsLine /\ pc' = "loop"
           /\ stack # <<>> /\ Len(stack') = Len(stack) + 1)
          => LET parent == heap[Top.data]
                 new == stack'[Len(stack')].data
             IN  /\ new = Len(heap) + 1
                 /\ SubSeq(stack', 1, Len(stack)) = stack
                 /\ LastItem(parent).val = Str(<<>>)
                 /\ heap'[Top.data].items =
                        [parent.items EXCEPT ![Len(parent.items)].val = Obj(new)]
                 /\ (Top.entry_type = "m" /\ ~IsBlankLine(line))
                    => LastItem(parent).key = KeyBeforeFirstColon(line)
       /\ \A id \in 1..Len(heap) : \A i \in 1..Len(heap[id].items) :
              heap[id].items[i].val.kind = "obj"
              => /\ id <= Len(heap')
                 /\ i <= Len(heap'[id].items)
                 /\ heap'[id].items[i] = heap[id].items[i]]_vars

\* a mapping opened under the second item of a sequence whose first item
\* is empty too, two frames open above the bottom
C17_Witness ==
    /\ pc = "loop"
    /\ Len(stack) = 3
    /\ FramesLinked
    /\ heap[stack[2].data].kind = "list"
    /\ Len(heap[stack[2].data].items) = 2
    /\ heap[stack[2].data].items[1].val = Str(<<>>)
    /\ heap[stack[3].data].kind = "dict"

RECURSIVE Reach(_, _)
Reach(hp, id) == {id} \cup UNION { Reach(hp, k) : k \in Children(hp, id) }

NoEmptyContainer ==
    stack # <<>>
    => /\ \A id \in Reach(heap, stack[1].data) : heap[id].items # <<>>
       /\ LastItem(heap[Top.data]).val.kind = "str"

\* C18: after every line processed without error, and at the return, every
\* container reachable from the bottom frame holds an entry and the slot
\* added last to the top frame holds a scalar; a slot holding the empty
\* scalar changes only when it is the slot added last to the top frame and
\* the next entry line is deeper than that frame.
C18_NoEmptyContainer ==
    [][/\ pc' \in {"loop", "returned"} => NoEmptyContainer'
       /\ pc' = "returned"
          => \A id \in Reach(heap', result') : heap'[id].items # <<>>
       /\ \A id \in 1..Len(heap) : \A i \in 1..Len(heap[id].items) :
              (/\ heap[id].items[i].val = Str(<<>>)
               /\ ~(/\ ReadsLine /\ IsEntryLine(line')
                    /\ LeadingWhitespace(line') > Top.indent
                    /\ id = Top.data
                    /\ i = Len(heap[id].items)))
              => heap'[id].items[i] = heap[id].items[i]]_vars

\* returned: a sequence whose first item stayed the empty scalar and whose
\* second item is a mapping with an empty value
C18_Witness ==
    /\ pc = "returned"
    /\ heap[result].kind = "list"
    /\ Len(heap[result].items) = 2
    /\ heap[result].items[1].val = Str(<<>>)
    /\ heap[result].items[2].val = Obj(2)
    /\ heap[2].items = <<Item(<<"name">>, Str(<<>>))>>

Names(list) == [i \in 1..Len(list) |-> list[i].name]

\* C19 as stated: the list of tests never holds two tests of the same
\* name, the second entry of a name failing with 'Duplicate test name'.
C19_DuplicateNameRejected ==
    \A i \in 1..Len(tests) : \A j \in 1..Len(tests) :
        i < j => tests[i].name # tests[j].name

\* C20 as stated: with a test subset, a name that no loaded test has makes
\* loading fail with 'Unrecognized test'; otherwise the active tests before
\* the group filters are the named tests in the order of the subset.
C20_UnknownSubsetNameRejected ==
    [][/\ (/\ lpc = "subset" /\ active_test_names # <<>>
           /\ \A i \in 1..Len(tests) : tests[i].name # Head(active_test_names))
          => /\ lpc' = "raised"
             /\ exception' = Failure("Unrecognized test")
       /\ (lpc = "subset" /\ lpc' = "filter")
          => /\ Names(active_tests') = split(args.test_subset, ",")
             /\ \A i \in 1..Len(active_tests') : InList(active_tests'[i], tests)]_vars

====
